---- MODULE Spec2Model ----
(***************************************************************************)
(* Model of app.py: the declaration pass of InfrastructureStack.__init__   *)
(* (one action per statement), app.synth(), and the provisioning of the    *)
(* synthesized resource graph: resources are created in any order that     *)
(* respects the references the declaration makes; the boot script runs on  *)
(* the instance once it exists; the unchanged declaration may be applied   *)
(* again, each apply looking up the latest machine image anew.             *)
(***************************************************************************)
EXTENDS Integers, Sequences, FiniteSets, TLC

VARIABLES
    pc,               \* next statement of the declaration pass
    vpc,              \* local `vpc`            (app.py:17)
    public_subnet,    \* local `public_subnet`  (app.py:40)
    security_group,   \* local `security_group` (app.py:50)
    key_pair_name,    \* local `key_pair_name`  (app.py:81)
    amzn_linux,       \* local `amzn_linux`     (app.py:85)
    ec2_instance,     \* local `ec2_instance`   (app.py:92)
    outputs,          \* CfnOutput constructs of the stack, insertion order
    keyExists,        \* environment: does the named key credential pre-exist
    latestImage,      \* environment: newest Amazon Linux 2 image published
    status,           \* stack status
    applies,          \* number of applies started
    created,          \* ids of the resources that exist in the account
    imageId,          \* image the lookup resolved to in this apply, 0: not yet
    instanceState,    \* run-time attributes of the created instance
    resolved,         \* output name -> resolved value
    bootLog,          \* boot commands run so far on the instance, with result
    previous          \* resources and outputs at the end of the apply before

declVars == <<vpc, public_subnet, security_group, key_pair_name, amzn_linux,
              ec2_instance, outputs>>
envVars == <<keyExists, latestImage>>
applyVars == <<applies, created, imageId, instanceState, resolved, bootLog,
               previous>>
vars == <<pc, vpc, public_subnet, security_group, key_pair_name, amzn_linux,
          ec2_instance, outputs, keyExists, latestImage, status, applies,
          created, imageId, instanceState, resolved, bootLog, previous>>

\* how many image versions the catalogue publishes, how many applies are run
MaxImageVersions == 2
MaxApplies == 2

\* an unbound local / a missing value
Null == [kind |-> "Null"]

(***************************************************************************)
(* Literals of the declaration                                             *)
(***************************************************************************)
\* 10.0.0.0 as a 32-bit address
VpcBase == 167772160
VpcMask == 16
MaxAzs == 2
CidrMask == 24
SshPort == 22
HttpPort == 80
HttpsPort == 443

\* 0.0.0.0/0, what Peer.any_ipv4() denotes
AnyIpv4 == [cidrBase |-> 0, cidrMask |-> 0]

\* the stack is environment-agnostic (env= is commented out): the stack
\* offers two availability-zone tokens
AvailabilityZones == <<"az0", "az1">>

SubnetConfiguration ==
    << [name |-> "PublicSubnet",  subnetType |-> "PUBLIC",              cidrMask |-> CidrMask],
       [name |-> "PrivateSubnet", subnetType |-> "PRIVATE_WITH_EGRESS", cidrMask |-> CidrMask] >>

BootCommands ==
    << "yum update -y",
       "yum install -y httpd",
       "systemctl start httpd",
       "systemctl enable httpd",
       "echo '<h1>Hello from AWS CDK!</h1>' > /var/www/html/index.html" >>

\* the seven CfnOutput calls, in source order: name, variable the value is
\* read from, attribute read
OutputDecls ==
    << [name |-> "VPCId",             of |-> "vpc",            attr |-> "vpc_id"],
       [name |-> "InternetGatewayId", of |-> "vpc",            attr |-> "internet_gateway_id"],
       [name |-> "PublicSubnetId",    of |-> "public_subnet",  attr |-> "subnet_id"],
       [name |-> "SecurityGroupId",   of |-> "security_group", attr |-> "security_group_id"],
       [name |-> "EC2InstanceId",     of |-> "ec2_instance",   attr |-> "instance_id"],
       [name |-> "EC2PublicIP",       of |-> "ec2_instance",   attr |-> "instance_public_ip"],
       [name |-> "EC2PublicDNS",      of |-> "ec2_instance",   attr |-> "instance_public_dns_name"] >>

\* resource ids: <<construct name, index>>
VpcId == <<"MyVPC", 0>>
IgwId == <<"IGW", 0>>
SgId == <<"MySecurityGroup", 0>>
InstanceId == <<"MyEC2Instance", 0>>

(***************************************************************************)
(* Helpers                                                                 *)
(***************************************************************************)
Min(a, b) == IF a < b THEN a ELSE b

\* number of addresses of a block with the given mask
BlockSize(mask) == 2 ^ (32 - mask)

\* first and last address of a CIDR block
CidrFirst(c) == c.cidrBase
CidrLast(c) == c.cidrBase + BlockSize(c.cidrMask) - 1

CidrOverlap(a, b) == CidrFirst(a) <= CidrLast(b) /\ CidrFirst(b) <= CidrLast(a)
CidrInside(a, b) == CidrFirst(b) <= CidrFirst(a) /\ CidrLast(a) <= CidrLast(b)

\* max_azs=2: the first max_azs zones the stack offers
Azs == SubSeq(AvailabilityZones, 1, Min(MaxAzs, Len(AvailabilityZones)))

\* ec2.Vpc subnet layout: for each subnet configuration, in order, one subnet
\* per availability zone, each taking the next free block of its mask
\* variant: every subnet configuration starts again at the start of the block
RECURSIVE AllocSubnetsRestart(_, _, _)
AllocSubnetsRestart(c, a, next) ==
    IF c > Len(SubnetConfiguration) THEN << >>
    ELSE IF a > Len(Azs) THEN AllocSubnetsRestart(c + 1, 1, VpcBase)
    ELSE LET cfg == SubnetConfiguration[c]
             sn == [id |-> <<cfg.name, a>>,
                    name |-> cfg.name,
                    subnetType |-> cfg.subnetType,
                    az |-> Azs[a],
                    cidrBase |-> next,
                    cidrMask |-> cfg.cidrMask,
                    mapPublicIpOnLaunch |-> (cfg.subnetType = "PUBLIC")]
         IN  <<sn>> \o AllocSubnetsRestart(c, a + 1, next + BlockSize(cfg.cidrMask))

RECURSIVE AllocSubnets(_, _, _)
AllocSubnets(c, a, next) ==
    IF c > Len(SubnetConfiguration) THEN << >>
    ELSE IF a > Len(Azs) THEN AllocSubnets(c + 1, 1, next)
    ELSE LET cfg == SubnetConfiguration[c]
             sn == [id |-> <<cfg.name, a>>,
                    name |-> cfg.name,
                    subnetType |-> cfg.subnetType,
                    az |-> Azs[a],
                    cidrBase |-> next,
                    cidrMask |-> cfg.cidrMask,
                    mapPublicIpOnLaunch |-> (cfg.subnetType = "PUBLIC")]
         IN  <<sn>> \o AllocSubnets(c, a + 1, next + BlockSize(cfg.cidrMask))

IsPublic(sn) == sn.subnetType = "PUBLIC"
IsPrivate(sn) == sn.subnetType = "PRIVATE_WITH_EGRESS"

\* vpc.public_subnets / vpc.private_subnets
PublicSubnets(v) == SelectSeq(v.subnets, IsPublic)
PrivateSubnets(v) == SelectSeq(v.subnets, IsPrivate)

\* vpc.select_subnets(SubnetSelection(subnet_type=t))
SelectSubnets(v, t) ==
    IF t = "PUBLIC" THEN PublicSubnets(v) ELSE PrivateSubnets(v)

\* InstanceType.of(InstanceClass.T3, InstanceSize.MICRO)
InstanceTypeOf(class, size) == class \o "." \o size

Range(s) == {s[i] : i \in DOMAIN s}

(***************************************************************************)
(* Initial state: nothing declared, nothing provisioned                    *)
(***************************************************************************)
Init ==
    /\ pc = "Vpc"
    /\ vpc = Null
    /\ public_subnet = Null
    /\ security_group = Null
    /\ key_pair_name = Null
    /\ amzn_linux = Null
    /\ ec2_instance = Null
    /\ outputs = << >>
    /\ keyExists \in BOOLEAN
    /\ latestImage = 1
    /\ status = "DECLARING"
    /\ applies = 0
    /\ created = {}
    /\ imageId = 0
    /\ instanceState = Null
    /\ resolved = << >>
    /\ bootLog = << >>
    /\ previous = Null

(***************************************************************************)
(* The declaration pass, InfrastructureStack.__init__                      *)
(***************************************************************************)
\* variant: the VPC is declared without DNS hostnames
CreateVpcNoDnsHostnames ==
    /\ pc = "Vpc"
    /\ vpc' = [kind |-> "Vpc",
               id |-> VpcId,
               cidrBase |-> VpcBase,
               cidrMask |-> VpcMask,
               enableDnsHostnames |-> FALSE,
               enableDnsSupport |-> TRUE,
               subnets |-> AllocSubnets(1, 1, VpcBase),
               internetGatewayId |-> IgwId]
    /\ pc' = "public_subnet"
    /\ UNCHANGED <<public_subnet, security_group, key_pair_name, amzn_linux,
                   ec2_instance, outputs, envVars, status, applyVars>>

\* vpc = ec2.Vpc(self, "MyVPC", ...)
CreateVpc ==
    /\ pc = "Vpc"
    /\ vpc' = [kind |-> "Vpc",
               id |-> VpcId,
               cidrBase |-> VpcBase,
               cidrMask |-> VpcMask,
               enableDnsHostnames |-> TRUE,
               enableDnsSupport |-> TRUE,
               subnets |-> AllocSubnets(1, 1, VpcBase),
               internetGatewayId |-> IgwId]
    /\ pc' = "public_subnet"
    /\ UNCHANGED <<public_subnet, security_group, key_pair_name, amzn_linux,
                   ec2_instance, outputs, envVars, status, applyVars>>

\* public_subnet = vpc.public_subnets[0]
GetPublicSubnet ==
    /\ pc = "public_subnet"
    /\ public_subnet' = PublicSubnets(vpc)[1]
    /\ pc' = "SecurityGroup"
    /\ UNCHANGED <<vpc, security_group, key_pair_name, amzn_linux,
                   ec2_instance, outputs, envVars, status, applyVars>>

\* security_group = ec2.SecurityGroup(self, "MySecurityGroup", vpc=vpc, ...)
CreateSecurityGroup ==
    /\ pc = "SecurityGroup"
    /\ security_group' = [kind |-> "SecurityGroup",
                          id |-> SgId,
                          vpc |-> vpc.id,
                          description |-> "Security group for EC2 instance",
                          allowAllOutbound |-> TRUE,
                          ingress |-> << >>,
                          egress |-> << >>]
    /\ pc' = "ingress_ssh"
    /\ UNCHANGED <<vpc, public_subnet, key_pair_name, amzn_linux,
                   ec2_instance, outputs, envVars, status, applyVars>>

\* variant: the new rule replaces the rules the group holds
AddRuleReplace(sg, peer, protocol, port, description) ==
    [sg EXCEPT !.ingress = << [peer |-> peer, protocol |-> protocol,
                               port |-> port, description |-> description] >>]

\* SecurityGroup.add_ingress_rule: appends the rule unless the group already
\* holds a rule with the same peer and connection
AddRule(sg, peer, protocol, port, description) ==
    LET rule == [peer |-> peer, protocol |-> protocol, port |-> port,
                 description |-> description]
        same(r) == r.peer = peer /\ r.protocol = protocol /\ r.port = port
    IN  IF \E i \in DOMAIN sg.ingress : same(sg.ingress[i])
        THEN sg
        ELSE [sg EXCEPT !.ingress = Append(@, rule)]

\* security_group.add_ingress_rule(peer=any_ipv4(), connection=tcp(22), ...)
AddIngressSsh ==
    /\ pc = "ingress_ssh"
    /\ security_group' = AddRule(security_group, AnyIpv4, "tcp", SshPort, "SSH access")
    /\ pc' = "ingress_http"
    /\ UNCHANGED <<vpc, public_subnet, key_pair_name, amzn_linux,
                   ec2_instance, outputs, envVars, status, applyVars>>

\* security_group.add_ingress_rule(peer=any_ipv4(), connection=tcp(80), ...)
AddIngressHttp ==
    /\ pc = "ingress_http"
    /\ security_group' = AddRule(security_group, AnyIpv4, "tcp", HttpPort, "HTTP access")
    /\ pc' = "ingress_https"
    /\ UNCHANGED <<vpc, public_subnet, key_pair_name, amzn_linux,
                   ec2_instance, outputs, envVars, status, applyVars>>

\* variant: the third call repeats the HTTP port
AddIngressHttpsAsHttp ==
    /\ pc = "ingress_https"
    /\ security_group' = AddRule(security_group, AnyIpv4, "tcp", HttpPort, "HTTPS access")
    /\ pc' = "key_pair_name"
    /\ UNCHANGED <<vpc, public_subnet, key_pair_name, amzn_linux,
                   ec2_instance, outputs, envVars, status, applyVars>>

\* security_group.add_ingress_rule(peer=any_ipv4(), connection=tcp(443), ...)
AddIngressHttps ==
    /\ pc = "ingress_https"
    /\ security_group' = AddRule(security_group, AnyIpv4, "tcp", HttpsPort, "HTTPS access")
    /\ pc' = "key_pair_name"
    /\ UNCHANGED <<vpc, public_subnet, key_pair_name, amzn_linux,
                   ec2_instance, outputs, envVars, status, applyVars>>

\* key_pair_name = "my-key-pair"
SetKeyPairName ==
    /\ pc = "key_pair_name"
    /\ key_pair_name' = [kind |-> "KeyName", name |-> "my-key-pair"]
    /\ pc' = "amzn_linux"
    /\ UNCHANGED <<vpc, public_subnet, security_group, amzn_linux,
                   ec2_instance, outputs, envVars, status, applyVars>>

\* amzn_linux = ec2.MachineImage.latest_amazon_linux2(...)
LatestAmazonLinux2 ==
    /\ pc = "amzn_linux"
    /\ amzn_linux' = [kind |-> "MachineImage",
                      generation |-> "AMAZON_LINUX_2",
                      edition |-> "STANDARD",
                      virtualization |-> "HVM",
                      storage |-> "GENERAL_PURPOSE"]
    /\ pc' = "Instance"
    /\ UNCHANGED <<vpc, public_subnet, security_group, key_pair_name,
                   ec2_instance, outputs, envVars, status, applyVars>>

\* variant: the last subnet of the selection
InstanceSubnetLast(v, subnetType) ==
    SelectSubnets(v, subnetType)[Len(SelectSubnets(v, subnetType))]

\* the subnet ec2.Instance places the instance in: the first subnet of the
\* selection (no availability_zone is given)
InstanceSubnet(v, subnetType) == SelectSubnets(v, subnetType)[1]

\* variant: the instance is placed by a PRIVATE_WITH_EGRESS selection
CreateInstancePrivate ==
    /\ pc = "Instance"
    /\ ec2_instance' = [kind |-> "Instance",
                        id |-> InstanceId,
                        instanceType |-> InstanceTypeOf("t3", "micro"),
                        machineImage |-> amzn_linux,
                        vpc |-> vpc.id,
                        subnet |-> InstanceSubnet(vpc, "PRIVATE_WITH_EGRESS").id,
                        securityGroup |-> security_group.id,
                        keyName |-> key_pair_name.name,
                        userData |-> [shebang |-> "#!/bin/bash", commands |-> << >>]]
    /\ pc' = "add_commands"
    /\ UNCHANGED <<vpc, public_subnet, security_group, key_pair_name,
                   amzn_linux, outputs, envVars, status, applyVars>>

\* ec2_instance = ec2.Instance(self, "MyEC2Instance", ...)
CreateInstance ==
    /\ pc = "Instance"
    /\ ec2_instance' = [kind |-> "Instance",
                        id |-> InstanceId,
                        instanceType |-> InstanceTypeOf("t3", "micro"),
                        machineImage |-> amzn_linux,
                        vpc |-> vpc.id,
                        subnet |-> InstanceSubnet(vpc, "PUBLIC").id,
                        securityGroup |-> security_group.id,
                        keyName |-> key_pair_name.name,
                        userData |-> [shebang |-> "#!/bin/bash", commands |-> << >>]]
    /\ pc' = "add_commands"
    /\ UNCHANGED <<vpc, public_subnet, security_group, key_pair_name,
                   amzn_linux, outputs, envVars, status, applyVars>>

\* UserData.add_commands: appends the commands, in argument order
AddCommandsTo(inst, cmds) == [inst EXCEPT !.userData.commands = @ \o cmds]

\* ec2_instance.user_data.add_commands(...)
AddCommands ==
    /\ pc = "add_commands"
    /\ ec2_instance' = AddCommandsTo(ec2_instance, BootCommands)
    /\ pc' = "outputs"
    /\ UNCHANGED <<vpc, public_subnet, security_group, key_pair_name,
                   amzn_linux, outputs, envVars, status, applyVars>>

\* the resource a declared output reads its value from
OutputSource(d) ==
    CASE d.of = "vpc" -> IF d.attr = "internet_gateway_id"
                         THEN vpc.internetGatewayId ELSE vpc.id
      [] d.of = "public_subnet" -> public_subnet.id
      [] d.of = "security_group" -> security_group.id
      [] d.of = "ec2_instance" -> ec2_instance.id

\* CfnOutput(self, name, value=..., description=...): the next of the seven
CfnOutputStep ==
    /\ pc = "outputs"
    /\ Len(outputs) < Len(OutputDecls)
    /\ LET d == OutputDecls[Len(outputs) + 1]
       IN  /\ \A i \in DOMAIN outputs : outputs[i].name # d.name
           /\ outputs' = Append(outputs, [name |-> d.name,
                                          source |-> OutputSource(d),
                                          attr |-> d.attr])
    /\ pc' = IF Len(outputs') = Len(OutputDecls) THEN "synth" ELSE "outputs"
    /\ UNCHANGED <<vpc, public_subnet, security_group, key_pair_name,
                   amzn_linux, ec2_instance, envVars, status, applyVars>>

\* app.synth()
Synth ==
    /\ pc = "synth"
    /\ pc' = "done"
    /\ status' = "CREATE_IN_PROGRESS"
    /\ applies' = 1
    /\ UNCHANGED <<declVars, envVars, created, imageId, instanceState,
                   resolved, bootLog, previous>>

(***************************************************************************)
(* Provisioning of the synthesized stack                                   *)
(***************************************************************************)
SubnetIds == {vpc.subnets[i].id : i \in DOMAIN vpc.subnets}

\* every resource the declaration puts into the stack
TemplateResources ==
    {vpc.id, vpc.internetGatewayId, security_group.id, ec2_instance.id}
        \cup SubnetIds

\* variant: the instance does not refer to the security group
InstanceDepsNoSg == {ec2_instance.subnet}

\* the resources the instance refers to: its subnet and its security group
InstanceDeps == {ec2_instance.subnet, ec2_instance.securityGroup}

\* the resources a resource refers to, which must exist before it is created
Deps(id) ==
    IF id = ec2_instance.id THEN InstanceDeps
    ELSE IF id = security_group.id THEN {security_group.vpc}
    ELSE IF id \in SubnetIds THEN {vpc.id}
    ELSE {}

SubnetById(id) == CHOOSE sn \in Range(vpc.subnets) : sn.id = id

InProgress == status \in {"CREATE_IN_PROGRESS", "UPDATE_IN_PROGRESS"}
Succeeded == status \in {"CREATE_COMPLETE", "UPDATE_COMPLETE"}

\* environment: a newer Amazon Linux 2 image is published
PublishImage ==
    /\ latestImage < MaxImageVersions
    /\ latestImage' = latestImage + 1
    /\ UNCHANGED <<pc, declVars, keyExists, status, applyVars>>

\* latest_amazon_linux2 is not pinned: every apply looks the image up and
\* gets the newest one published at that moment
ResolveImage ==
    /\ InProgress
    /\ imageId = 0
    /\ imageId' = latestImage
    /\ UNCHANGED <<pc, declVars, envVars, status, applies, created,
                   instanceState, resolved, bootLog, previous>>

\* the VPC, the internet gateway, a subnet or the security group is created
\* once everything it refers to exists, unless it exists already
CreateResource(id) ==
    /\ InProgress
    /\ id \in TemplateResources \ created
    /\ id # ec2_instance.id
    /\ Deps(id) \subseteq created
    /\ created' = created \cup {id}
    /\ UNCHANGED <<pc, declVars, envVars, status, applies, imageId,
                   instanceState, resolved, bootLog, previous>>

\* any resource of the stack other than the instance
CreateResources ==
    /\ InProgress
    /\ \E id \in TemplateResources : CreateResource(id)

\* run-time attributes of the n-th instance the stack launches, from image
\* img: it has a public address when its subnet maps public addresses on
\* launch, and a public DNS name when it has a public address and the VPC has
\* DNS support and DNS hostnames enabled
InstanceAttributes(n, img) ==
    LET sn == SubnetById(ec2_instance.subnet)
    IN  [kind |-> "InstanceState",
         physical |-> n,
         reconciled |-> applies,
         image |-> img,
         subnet |-> sn.id,
         securityGroup |-> ec2_instance.securityGroup,
         instanceType |-> ec2_instance.instanceType,
         publicIp |-> sn.mapPublicIpOnLaunch,
         publicDns |-> (sn.mapPublicIpOnLaunch /\ vpc.enableDnsHostnames
                            /\ vpc.enableDnsSupport)]

\* the instance is created once its subnet, its security group and the image
\* exist; the stack declares no key pair, so the creation fails when the
\* credential named by key_name does not pre-exist
ProvisionInstance ==
    /\ InProgress
    /\ ec2_instance.id \notin created
    /\ Deps(ec2_instance.id) \subseteq created
    /\ imageId # 0
    /\ IF keyExists
       THEN /\ created' = created \cup {ec2_instance.id}
            /\ instanceState' = InstanceAttributes(1, imageId)
            /\ status' = status
       ELSE /\ status' = "CREATE_FAILED"
            /\ UNCHANGED <<created, instanceState>>
    /\ UNCHANGED <<pc, declVars, envVars, applies, imageId, resolved, bootLog,
                   previous>>

\* variant: every apply launches a new instance
NeedsReplacementAlways == TRUE

\* the image of an instance cannot be changed in place: when the lookup of
\* this apply yields another image than the instance runs, the instance is
\* replaced
NeedsReplacement == instanceState.image # imageId

\* a later apply reconciles the instance with the declaration: it is kept
\* when nothing changed for it, and replaced by a new instance, launched
\* from the newly resolved image and booting for the first time, otherwise
UpdateInstance ==
    /\ status = "UPDATE_IN_PROGRESS"
    /\ ec2_instance.id \in created
    /\ imageId # 0
    /\ instanceState.reconciled < applies
    /\ IF NeedsReplacement
       THEN /\ instanceState' =
                   InstanceAttributes(instanceState.physical + 1, imageId)
            /\ bootLog' = << >>
       ELSE /\ instanceState' = [instanceState EXCEPT !.reconciled = applies]
            /\ bootLog' = bootLog
    /\ UNCHANGED <<pc, declVars, envVars, status, applies, created, imageId,
                   resolved, previous>>

\* the instance of the stack is the one this apply asks for
InstanceCurrent ==
    /\ ec2_instance.id \in created
    /\ instanceState.reconciled = applies

\* the value an output resolves to: the attribute of its source resource,
\* Null when the resource has no such attribute
AttrValue(o) ==
    LET v == [kind |-> "Value", of |-> o.source, attr |-> o.attr,
              physical |-> IF o.source = ec2_instance.id
                           THEN instanceState.physical ELSE 1]
    IN  CASE o.attr = "instance_public_ip" ->
                 IF instanceState.publicIp THEN v ELSE Null
          [] o.attr = "instance_public_dns_name" ->
                 IF instanceState.publicDns THEN v ELSE Null
          [] OTHER -> v

\* the outputs are evaluated when every resource of the stack exists
OutputReady(o) == created = TemplateResources /\ InstanceCurrent

ResolveOutput(i) ==
    /\ InProgress
    /\ outputs[i].name \notin DOMAIN resolved
    /\ OutputReady(outputs[i])
    /\ resolved' = [n \in DOMAIN resolved \cup {outputs[i].name} |->
                        IF n = outputs[i].name THEN AttrValue(outputs[i])
                        ELSE resolved[n]]
    /\ UNCHANGED <<pc, declVars, envVars, status, applies, created, imageId,
                   instanceState, bootLog, previous>>

ResolveOutputs == \E i \in DOMAIN outputs : ResolveOutput(i)

\* the apply succeeds when all resources exist and all outputs are resolved
Complete ==
    /\ InProgress
    /\ created = TemplateResources
    /\ \A i \in DOMAIN outputs : outputs[i].name \in DOMAIN resolved
    /\ status' = IF status = "CREATE_IN_PROGRESS"
                 THEN "CREATE_COMPLETE" ELSE "UPDATE_COMPLETE"
    /\ UNCHANGED <<pc, declVars, envVars, applies, created, imageId,
                   instanceState, resolved, bootLog, previous>>

\* the unchanged declaration is applied again: the same resource graph is
\* submitted, the image is looked up anew and the outputs are evaluated anew
Reapply ==
    /\ Succeeded
    /\ applies < MaxApplies
    /\ applies' = applies + 1
    /\ status' = "UPDATE_IN_PROGRESS"
    /\ previous' = [kind |-> "Applied",
                    created |-> created,
                    instance |-> instanceState,
                    resolved |-> resolved]
    /\ imageId' = 0
    /\ resolved' = << >>
    /\ UNCHANGED <<pc, declVars, envVars, created, instanceState, bootLog>>

\* variant: a failed boot command is signalled to the stack
BootEffectSignal(st, ok) == IF ok THEN st ELSE "CREATE_FAILED"

\* the effect of one boot command on the stack: none, whatever its result
\* (the declaration sets up no completion signal for the instance)
BootEffect(st, ok) == st

\* the next command of the boot script: the first not yet run
NextBootCommand == Len(bootLog) + 1

\* first boot of the instance: the user-data script runs its commands one
\* after the other; a command may fail and the script goes on
BootStep ==
    /\ pc = "done"
    /\ ec2_instance.id \in created
    /\ Len(bootLog) < Len(ec2_instance.userData.commands)
    /\ \E ok \in BOOLEAN :
          /\ bootLog' = Append(bootLog,
                  [index |-> NextBootCommand,
                   cmd |-> ec2_instance.userData.commands[NextBootCommand],
                   ok |-> ok])
          /\ status' = BootEffect(status, ok)
    /\ UNCHANGED <<pc, declVars, envVars, applies, created, imageId,
                   instanceState, resolved, previous>>

Next ==
    \/ CreateVpc
    \/ GetPublicSubnet
    \/ CreateSecurityGroup
    \/ AddIngressSsh
    \/ AddIngressHttp
    \/ AddIngressHttps
    \/ SetKeyPairName
    \/ LatestAmazonLinux2
    \/ CreateInstance
    \/ AddCommands
    \/ CfnOutputStep
    \/ Synth
    \/ PublishImage
    \/ ResolveImage
    \/ CreateResources
    \/ ProvisionInstance
    \/ UpdateInstance
    \/ ResolveOutputs
    \/ Complete
    \/ Reapply
    \/ BootStep

Spec == Init /\ [][Next]_vars

(***************************************************************************)
(* Properties                                                              *)
(***************************************************************************)
CreatedSubnets == {sn \in Range(vpc.subnets) : sn.id \in created}

\* the mask configured for the role a subnet belongs to
RoleMask(sn) ==
    LET i == CHOOSE j \in DOMAIN SubnetConfiguration :
                 SubnetConfiguration[j].name = sn.name
    IN  SubnetConfiguration[i].cidrMask

\* C1: after a successful apply the Network has AZ count x role count (4)
\* subnets, every subnet has the /24 mask configured for its role and lies
\* inside the VPC block 10.0.0.0/16, and no two subnets overlap.
C1_SubnetLayout ==
    Succeeded =>
        /\ Cardinality(CreatedSubnets) = MaxAzs * Len(SubnetConfiguration)
        /\ Cardinality(CreatedSubnets) = 4
        /\ \A sn \in CreatedSubnets :
              /\ sn.cidrMask = RoleMask(sn)
              /\ sn.cidrMask = 24
              /\ CidrInside(sn, [cidrBase |-> VpcBase, cidrMask |-> VpcMask])
        /\ \A a, b \in CreatedSubnets : a.id # b.id => ~CidrOverlap(a, b)

C1_Witness ==
    /\ Succeeded
    /\ Cardinality(CreatedSubnets) = 4
    /\ \E a, b \in CreatedSubnets :
          a.subnetType = "PUBLIC" /\ b.subnetType = "PRIVATE_WITH_EGRESS"

AfterIngressCalls ==
    pc \notin {"Vpc", "public_subnet", "SecurityGroup",
               "ingress_ssh", "ingress_http", "ingress_https"}

RuleKey(r) == <<r.peer.cidrBase, r.peer.cidrMask, r.protocol, r.port>>

\* C2: after the three add_ingress_rule calls the ingress rules are exactly
\* (0.0.0.0/0, tcp, 22), (0.0.0.0/0, tcp, 80), (0.0.0.0/0, tcp, 443), in
\* that order, all outbound traffic is allowed and no outbound rule is
\* declared.
C2_IngressRules ==
    AfterIngressCalls =>
        /\ [i \in DOMAIN security_group.ingress |->
               RuleKey(security_group.ingress[i])]
             = << <<0, 0, "tcp", 22>>, <<0, 0, "tcp", 80>>, <<0, 0, "tcp", 443>> >>
        /\ security_group.allowAllOutbound
        /\ security_group.egress = << >>

C2_Witness ==
    /\ AfterIngressCalls
    /\ Succeeded
    /\ Len(security_group.ingress) = 3

PublicSubnetIds == {sn.id : sn \in {x \in Range(vpc.subnets) : x.subnetType = "PUBLIC"}}
PrivateSubnetIds ==
    {sn.id : sn \in {x \in Range(vpc.subnets) : x.subnetType = "PRIVATE_WITH_EGRESS"}}

\* C3: whenever the compute instance exists (declared, and then created) its
\* subnet is one of the Network's public subnets and not a PrivateWithEgress
\* one, its security group is the declared SecurityGroup and its size class
\* is t3.micro.
C3_InstancePlacement ==
    /\ ec2_instance # Null =>
          /\ ec2_instance.subnet \in PublicSubnetIds
          /\ ec2_instance.subnet \notin PrivateSubnetIds
          /\ ec2_instance.securityGroup = security_group.id
          /\ ec2_instance.instanceType = "t3.micro"
    /\ InstanceId \in created =>
          /\ instanceState.subnet \in PublicSubnetIds
          /\ instanceState.subnet \notin PrivateSubnetIds
          /\ instanceState.subnet \in created
          /\ instanceState.securityGroup = SgId
          /\ instanceState.instanceType = "t3.micro"

C3_Witness ==
    /\ InstanceId \in created
    /\ instanceState.subnet = <<"PublicSubnet", 1>>

OutputNames == [i \in DOMAIN outputs |-> outputs[i].name]

\* C4: the stack has exactly seven outputs with pairwise distinct names
\* (VPCId, InternetGatewayId, PublicSubnetId, SecurityGroupId, EC2InstanceId,
\* EC2PublicIP, EC2PublicDNS); after a successful apply each resolves to a
\* non-empty value; no output is resolved before its source resource exists.
C4_Outputs ==
    /\ pc \in {"synth", "done"} =>
          /\ OutputNames = << "VPCId", "InternetGatewayId", "PublicSubnetId",
                              "SecurityGroupId", "EC2InstanceId",
                              "EC2PublicIP", "EC2PublicDNS" >>
          /\ Cardinality(Range(OutputNames)) = 7
    /\ Succeeded =>
          \A n \in Range(OutputNames) : n \in DOMAIN resolved /\ resolved[n] # Null
    /\ \A i \in DOMAIN outputs :
          outputs[i].name \in DOMAIN resolved => outputs[i].source \in created

C4_Witness ==
    /\ Succeeded
    /\ Cardinality(DOMAIN resolved) = 7
    /\ resolved["EC2PublicDNS"] # Null

NetworkOutputs == {"VPCId", "InternetGatewayId", "PublicSubnetId", "SecurityGroupId"}

\* C5 as stated: a second apply of the unchanged declaration leaves the
\* resource set identical to the one after the first apply and produces
\* output values identical to those of the first apply.
C5_Idempotent ==
    status = "UPDATE_COMPLETE" =>
        /\ created = previous.created
        /\ instanceState.physical = previous.instance.physical
        /\ resolved = previous.resolved

\* C5 amended: a second apply of the unchanged declaration adds no resource
\* to the stack and leaves the VPC, internet gateway, public subnet and
\* security group outputs identical; when its image lookup resolves to the
\* image the instance was launched from, the instance is kept and all seven
\* outputs are identical.
C5_IdempotentForSameImage ==
    status = "UPDATE_COMPLETE" =>
        /\ created = previous.created
        /\ \A n \in NetworkOutputs : resolved[n] = previous.resolved[n]
        /\ imageId = previous.instance.image =>
              /\ instanceState.physical = previous.instance.physical
              /\ resolved = previous.resolved

C5_Witness ==
    /\ status = "UPDATE_COMPLETE"
    /\ latestImage = 2
    /\ imageId = previous.instance.image
    /\ Cardinality(DOMAIN resolved) = 7
    /\ resolved = previous.resolved

\* nodes reachable from the set S in at most n dependency steps
RECURSIVE DepsWithin(_, _)
DepsWithin(S, n) ==
    IF n = 0 THEN {}
    ELSE LET D == UNION {Deps(x) : x \in S}
         IN  D \cup DepsWithin(D, n - 1)

Acyclic ==
    \A id \in TemplateResources :
        id \notin DepsWithin({id}, Cardinality(TemplateResources))

IsPrefix(s, t) == Len(s) <= Len(t) /\ SubSeq(t, 1, Len(s)) = s

\* C8 as stated: once a resource description (Network, SecurityGroup,
\* ComputeInstance with its BootScript) has been constructed, no later step
\* changes any of its attributes.
C8_NeverMutated ==
    [][ /\ vpc # Null => vpc' = vpc
        /\ security_group # Null => security_group' = security_group
        /\ ec2_instance # Null => ec2_instance' = ec2_instance ]_vars

\* C8 amended: the Network description is never changed after construction;
\* the SecurityGroup description is changed after construction only by the
\* three add_ingress_rule calls, each appending one ingress rule; the
\* ComputeInstance description only by user_data.add_commands, which appends
\* the boot commands; no other step changes a constructed description.
C8_MutatedOnlyByAppends ==
    [][ /\ vpc # Null => vpc' = vpc
        /\ (security_group # Null /\ security_group' # security_group) =>
              /\ pc \in {"ingress_ssh", "ingress_http", "ingress_https"}
              /\ security_group' = [security_group EXCEPT
                                       !.ingress = security_group'.ingress]
              /\ Len(security_group'.ingress) = Len(security_group.ingress) + 1
              /\ IsPrefix(security_group.ingress, security_group'.ingress)
        /\ (ec2_instance # Null /\ ec2_instance' # ec2_instance) =>
              /\ pc = "add_commands"
              /\ ec2_instance' = [ec2_instance EXCEPT
                                     !.userData.commands = ec2_instance'.userData.commands]
              /\ IsPrefix(ec2_instance.userData.commands,
                          ec2_instance'.userData.commands)
      ]_vars

C8_Witness ==
    /\ pc = "done"
    /\ Len(security_group.ingress) = 3
    /\ Len(ec2_instance.userData.commands) = 5

\* C9: the boot script is the fixed five-command sequence; on the instance
\* each command runs at most once and in list order, none before its
\* predecessor; a failing command leaves the instance reported as created
\* and the apply not failed.
C9_BootScript ==
    /\ pc \in {"outputs", "synth", "done"} =>
          ec2_instance.userData.commands =
              << "yum update -y",
                 "yum install -y httpd",
                 "systemctl start httpd",
                 "systemctl enable httpd",
                 "echo '<h1>Hello from AWS CDK!</h1>' > /var/www/html/index.html" >>
    /\ Len(bootLog) <= 5
    /\ \A i \in DOMAIN bootLog :
          /\ bootLog[i].index = i
          /\ bootLog[i].cmd = ec2_instance.userData.commands[i]
    /\ (\E i \in DOMAIN bootLog : ~bootLog[i].ok) =>
          /\ InstanceId \in created
          /\ status # "CREATE_FAILED"

C9_Witness ==
    /\ Succeeded
    /\ Len(bootLog) = 5
    /\ ~bootLog[2].ok

\* C10: the subnet named by the PublicSubnetId output (vpc.public_subnets[0])
\* is the subnet the compute instance is placed in.
C10_OutputSubnetIsInstanceSubnet ==
    /\ ec2_instance # Null => public_subnet.id = ec2_instance.subnet
    /\ "PublicSubnetId" \in DOMAIN resolved =>
          /\ resolved["PublicSubnetId"].of = instanceState.subnet
          /\ resolved["PublicSubnetId"].of = PublicSubnets(vpc)[1].id

C10_Witness ==
    /\ Succeeded
    /\ resolved["PublicSubnetId"].of = <<"PublicSubnet", 1>>
    /\ Len(PublicSubnets(vpc)) = 2
====
